---- MODULE Spec2Model ----
(***************************************************************************)
(* Model of the Dashboard component of BRD Agent                           *)
(* (src/frontend/src/components/Dashboard.jsx): file intake and            *)
(* validation, content extraction, request composition and the two         *)
(* exports.                                                                *)
(*                                                                         *)
(* React state lives in the variables named after the useState hooks.      *)
(* Event handlers are closures of the last committed render: what a        *)
(* handler reads directly (uploadedFiles.length in processFiles, the       *)
(* disabled conditions of the buttons) is read from `view`, the values of  *)
(* that render, while functional updaters (prev => ...) act on the state   *)
(* itself.  Render commits the state to the view.                          *)
(***************************************************************************)
EXTENDS Integers, Sequences, FiniteSets, TLC

\* ------------------------------------------------------------------ bounds
MaxId == 12          \* ids handed out by processFiles in one run
MaxRemoved == 1      \* files removed again in one run
MaxAttached == 2     \* attached files in the generation specifications
MaxGens == 2         \* generateBRD invocations tracked at the same time
MaxExports == 2      \* downloadPDF invocations tracked at the same time
MaxLeaked == 3       \* temporary containers left in document.body
MaxExtra == 2        \* characters around the truncation threshold
MaxCanvas == 12      \* canvas heights, in quarters of an A4 page
MaxStacks == 3       \* canvas heights, in stacks of 7 A4 pages

\* ------------------------------------------------------- program constants
MAX_FILES_COUNT == 10
MAX_FILE_SIZE == 10 * 1024 * 1024
TRUNCATE_AT == 50000

PDF_TYPE == "application/pdf"
MD_TYPE == "text/markdown"
XMD_TYPE == "text/x-markdown"
DOCX_TYPE == "application/vnd.openxmlformats-officedocument.wordprocessingml.document"
PNG_TYPE == "image/png"

VALID_FILE_TYPES == {PDF_TYPE, MD_TYPE, XMD_TYPE, DOCX_TYPE}

\* null in a variable that otherwise holds a string
NULL == "null"

\* null and a value in a variable that otherwise holds an object
None == <<>>
Some(x) == <<x>>

\* ------------------------------------------------------------------ texts
\* A decoded text is a sequence of runs [ch, n]: n >= 1 copies of the
\* character ch, adjacent runs having different characters (so that equal
\* texts have equal representations).
Run(c, k) == [ch |-> c, n |-> k]

RECURSIVE StrLen(_)
StrLen(s) == IF s = <<>> THEN 0 ELSE Head(s).n + StrLen(Tail(s))

\* String.prototype.substring(0, k)
RECURSIVE Substring0(_, _)
Substring0(s, k) ==
  IF k <= 0 \/ s = <<>> THEN <<>>
  ELSE IF Head(s).n <= k THEN <<Head(s)>> \o Substring0(Tail(s), k - Head(s).n)
  ELSE <<Run(Head(s).ch, k)>>

\* character at 0-based position i (i < StrLen(s))
RECURSIVE CharAt(_, _)
CharAt(s, i) ==
  IF i < Head(s).n THEN Head(s).ch ELSE CharAt(Tail(s), i - Head(s).n)

\* Short strings (file names, the two text fields, project names) are
\* sequences of one-character strings.
UpperCase == <<"A", "B", "C", "D", "E", "F", "G", "H", "I", "J", "K", "L", "M",
               "N", "O", "P", "Q", "R", "S", "T", "U", "V", "W", "X", "Y", "Z">>
LowerCase == <<"a", "b", "c", "d", "e", "f", "g", "h", "i", "j", "k", "l", "m",
               "n", "o", "p", "q", "r", "s", "t", "u", "v", "w", "x", "y", "z">>

\* String.prototype.toLowerCase
ToLowerCase(s) ==
  [i \in 1..Len(s) |->
     IF \E k \in 1..26 : UpperCase[k] = s[i]
     THEN LowerCase[CHOOSE k \in 1..26 : UpperCase[k] = s[i]]
     ELSE s[i]]

\* String.prototype.includes
Includes(s, pat) ==
  \E i \in 0..(Len(s) - Len(pat)) : SubSeq(s, i + 1, i + Len(pat)) = pat

IsSpace(c) == c \in {" ", "\n", "\t"}

\* String.prototype.trim
RECURSIVE TrimStart(_)
TrimStart(s) ==
  IF s # <<>> /\ IsSpace(Head(s)) THEN TrimStart(Tail(s)) ELSE s

RECURSIVE TrimEnd(_)
TrimEnd(s) ==
  IF s # <<>> /\ IsSpace(s[Len(s)]) THEN TrimEnd(SubSeq(s, 1, Len(s) - 1)) ELSE s

Trim(s) == TrimEnd(TrimStart(s))

\* a || b on strings: the empty string is the only falsy string
OrElse(a, b) == IF a # <<>> THEN a ELSE b

\* the runs of a character sequence
RECURSIVE RunsOf(_)
RunsOf(s) ==
  IF s = <<>> THEN <<>>
  ELSE LET rest == RunsOf(Tail(s))
       IN IF rest # <<>> /\ Head(rest).ch = Head(s)
          THEN <<Run(Head(s), Head(rest).n + 1)>> \o Tail(rest)
          ELSE <<Run(Head(s), 1)>> \o rest

\* ------------------------------------------------------------------ files
\* A browser File: name, size in bytes, declared MIME type, decoded text.
MkFile(nm, sz, ty, txt) == [name |-> nm, size |-> sz, type |-> ty, content |-> txt]

SmallText == <<Run("a", 3)>>

F_brd_pdf == MkFile(<<"O", "l", "d", "_", "B", "R", "D", "_", "v", "1", ".", "p", "d", "f">>, 2048, PDF_TYPE, <<>>)
F_md_max == MkFile(<<"n", "o", "t", "e", "s", ".", "m", "d">>, MAX_FILE_SIZE, MD_TYPE, SmallText)
F_md_big == MkFile(<<"h", "u", "g", "e", ".", "m", "d">>, MAX_FILE_SIZE + 1, MD_TYPE, SmallText)
F_xmd == MkFile(<<"r", "e", "a", "d", "m", "e", ".", "m", "d">>, 10, XMD_TYPE, SmallText)
F_docx == MkFile(<<"p", "l", "a", "n", ".", "d", "o", "c", "x">>, 4096, DOCX_TYPE, <<>>)
F_png == MkFile(<<"l", "o", "g", "o", ".", "p", "n", "g">>, 1, PNG_TYPE, <<>>)
F_pdf_big == MkFile(<<"s", "c", "a", "n", ".", "p", "d", "f">>, MAX_FILE_SIZE + 1, PDF_TYPE, <<>>)

\* the batches a picker or drop event delivers in the intake specifications
IntakeBatches ==
  { <<F_brd_pdf>>,
    <<F_png, F_pdf_big>>,
    <<F_md_max, F_png, F_md_big, F_docx>>,
    <<F_brd_pdf, F_md_max, F_xmd, F_docx, F_md_max, F_xmd>> }

\* ------------------------------------------------------------------ state
VARIABLES
  projectDescription,  \* useState(''), a sequence of characters
  additionalInfo,      \* useState('')
  uploadedFiles,       \* useState([]), sequence of file descriptors
  isGenerating,        \* useState(false)
  isGeneratingPDF,     \* useState(false)
  isProcessingFiles,   \* useState(false)
  result,              \* useState(null): None or Some(response)
  error,               \* useState(null)
  view,                \* the values of the last committed render
  nextId,              \* source of the ids Date.now() + Math.random()
  alerts,              \* alert() calls of the handler run last
  event,               \* the handler run last and its argument
  gens,                \* generateBRD invocations that have not returned
  exports,             \* downloadPDF invocations that have not returned
  bodyChildren,        \* temporary containers attached to document.body
  download             \* the file saved last by an export

vars == <<projectDescription, additionalInfo, uploadedFiles, isGenerating,
          isGeneratingPDF, isProcessingFiles, result, error, view, nextId,
          alerts, event, gens, exports, bodyChildren, download>>

formVars == <<projectDescription, additionalInfo>>
exportVars == <<isGeneratingPDF, exports, bodyChildren, download>>
genVars == <<isGenerating, isProcessingFiles, result, error, gens>>

\* what a render reads from the state
ViewOf ==
  [uploadedFiles |-> uploadedFiles,
   projectDescription |-> projectDescription,
   additionalInfo |-> additionalInfo,
   isGenerating |-> isGenerating,
   isGeneratingPDF |-> isGeneratingPDF,
   isProcessingFiles |-> isProcessingFiles,
   result |-> result]

Init ==
  /\ projectDescription = <<>>
  /\ additionalInfo = <<>>
  /\ uploadedFiles = <<>>
  /\ isGenerating = FALSE
  /\ isGeneratingPDF = FALSE
  /\ isProcessingFiles = FALSE
  /\ result = None
  /\ error = NULL
  /\ view = ViewOf
  /\ nextId = 1
  /\ alerts = <<>>
  /\ event = [op |-> "init"]
  /\ gens = <<>>
  /\ exports = <<>>
  /\ bodyChildren = 0
  /\ download = None

\* ----------------------------------------------------------------- intake
\* IsValidFile with the size test written >= (a file of exactly the cap is
\* turned away)
IsValidFile_SizeGe(file) ==
  IF ~(file.type \in VALID_FILE_TYPES) THEN FALSE
  ELSE IF file.size >= MAX_FILE_SIZE THEN FALSE
  ELSE TRUE

\* the filter callback of processFiles
IsValidFile(file) ==
  IF ~(file.type \in VALID_FILE_TYPES) THEN FALSE
  ELSE IF file.size > MAX_FILE_SIZE THEN FALSE
  ELSE TRUE

\* validFiles.map(file => ({ id, file, name, size, type }))
MkDescriptors(validFiles, firstId) ==
  [i \in 1..Len(validFiles) |->
     [id |-> firstId + i - 1,
      file |-> validFiles[i],
      name |-> validFiles[i].name,
      size |-> validFiles[i].size,
      type |-> validFiles[i].type]]

\* ProcessOutcome with the splice keeping the last canAdd files
ProcessOutcome_SpliceTail(files, shownLen) ==
  LET validFiles == SelectSeq(files, IsValidFile)
      rejected ==
        IF Len(validFiles) # Len(files)
        THEN <<[kind |-> "rejected", count |-> Len(files) - Len(validFiles)]>>
        ELSE <<>>
      canAdd == MAX_FILES_COUNT - shownLen
  IN IF Len(validFiles) = 0
     THEN [accepted |-> <<>>, alerts |-> rejected]
     ELSE IF shownLen + Len(validFiles) > MAX_FILES_COUNT
     THEN IF canAdd > 0
          THEN [accepted |-> SubSeq(validFiles, Len(validFiles) - canAdd + 1,
                                    Len(validFiles)),
                alerts |-> rejected \o <<[kind |-> "limit", count |-> canAdd]>>]
          ELSE [accepted |-> <<>>,
                alerts |-> rejected \o <<[kind |-> "full", count |-> MAX_FILES_COUNT]>>]
     ELSE [accepted |-> validFiles, alerts |-> rejected]

\* ProcessOutcome whose rejection alert counts the files that passed
ProcessOutcome_CountsValid(files, shownLen) ==
  LET validFiles == SelectSeq(files, IsValidFile)
      rejected ==
        IF Len(validFiles) # Len(files)
        THEN <<[kind |-> "rejected", count |-> Len(validFiles)]>>
        ELSE <<>>
      canAdd == MAX_FILES_COUNT - shownLen
  IN IF Len(validFiles) = 0
     THEN [accepted |-> <<>>, alerts |-> rejected]
     ELSE IF shownLen + Len(validFiles) > MAX_FILES_COUNT
     THEN IF canAdd > 0
          THEN [accepted |-> SubSeq(validFiles, 1, canAdd),
                alerts |-> rejected \o <<[kind |-> "limit", count |-> canAdd]>>]
          ELSE [accepted |-> <<>>,
                alerts |-> rejected \o <<[kind |-> "full", count |-> MAX_FILES_COUNT]>>]
     ELSE [accepted |-> validFiles, alerts |-> rejected]

\* processFiles up to setUploadedFiles: the files that will be appended and
\* the alerts raised, for a batch and the list length the closure sees
ProcessOutcome(files, shownLen) ==
  LET validFiles == SelectSeq(files, IsValidFile)
      rejected ==
        IF Len(validFiles) # Len(files)
        THEN <<[kind |-> "rejected", count |-> Len(files) - Len(validFiles)]>>
        ELSE <<>>
      canAdd == MAX_FILES_COUNT - shownLen
  IN IF Len(validFiles) = 0
     THEN [accepted |-> <<>>, alerts |-> rejected]
     ELSE IF shownLen + Len(validFiles) > MAX_FILES_COUNT
     THEN IF canAdd > 0
          THEN [accepted |-> SubSeq(validFiles, 1, canAdd),
                alerts |-> rejected \o <<[kind |-> "limit", count |-> canAdd]>>]
          ELSE [accepted |-> <<>>,
                alerts |-> rejected \o <<[kind |-> "full", count |-> MAX_FILES_COUNT]>>]
     ELSE [accepted |-> validFiles, alerts |-> rejected]

\* the list length read by the capacity check of processFiles: the closure
\* value uploadedFiles.length of the render the handler belongs to
ShownLength == Len(view.uploadedFiles)

\* handleFileUpload / handleDrop -> processFiles(files)
ProcessFiles(files) ==
  /\ nextId + Len(files) <= MaxId + 1
  /\ LET out == ProcessOutcome(files, ShownLength)
     IN /\ uploadedFiles' = uploadedFiles \o MkDescriptors(out.accepted, nextId)
        /\ nextId' = nextId + Len(out.accepted)
        /\ alerts' = out.alerts
  /\ event' = [op |-> "processFiles", files |-> files]
  /\ UNCHANGED <<formVars, genVars, exportVars>>

\* FilterOut that drops the first file of the list when the id is listed
FilterOut_First(prev, fileId) ==
  IF \E i \in 1..Len(prev) : prev[i].id = fileId THEN Tail(prev) ELSE prev

\* prev.filter(f => f.id !== fileId)
FilterOut(prev, fileId) == SelectSeq(prev, LAMBDA f : f.id # fileId)

\* the remove button of a rendered file: onClick={() => removeFile(fileObj.id)}
RemoveFile(fileId) ==
  /\ \E i \in 1..Len(view.uploadedFiles) : view.uploadedFiles[i].id = fileId
  /\ ~view.isProcessingFiles
  /\ (nextId - 1) - Len(FilterOut(uploadedFiles, fileId)) <= MaxRemoved
  /\ uploadedFiles' = FilterOut(uploadedFiles, fileId)
  /\ alerts' = <<>>
  /\ event' = [op |-> "removeFile", id |-> fileId]
  /\ UNCHANGED <<formVars, genVars, exportVars, nextId>>

\* -------------------------------------------------------------- extraction
\* An extracted content is a sequence of parts, literal text of the program
\* or decoded text of a file; the content is their concatenation.
Lit(str) == [lit |-> str, txt |-> <<>>]
Txt(runs) == [lit |-> "", txt |-> runs]

TruncationMarker == "\n\n[Content truncated due to length]"

\* file.type.includes(word), on the MIME types of this model
TypeIncludes(type, word) ==
  CASE word = "markdown" -> type \in {MD_TYPE, XMD_TYPE}
    [] word = "text" -> type \in {MD_TYPE, XMD_TYPE}
    [] word = "wordprocessingml" -> type = DOCX_TYPE
    [] OTHER -> FALSE

\* OnLoad with the length test written >=
OnLoad_Ge(content) ==
  IF StrLen(content) >= TRUNCATE_AT
  THEN <<Txt(Substring0(content, TRUNCATE_AT)), Lit(TruncationMarker)>>
  ELSE <<Txt(content)>>

\* reader.onload of readFileContent: what the promise resolves with
OnLoad(content) ==
  IF StrLen(content) > TRUNCATE_AT
  THEN <<Txt(Substring0(content, TRUNCATE_AT)), Lit(TruncationMarker)>>
  ELSE <<Txt(content)>>

\* readFileContent up to the return of the promise: resolved at once with a
\* placeholder, or pending on reader.readAsText
ReadStart(file) ==
  IF file.type = PDF_TYPE
  THEN [state |-> "resolved",
        value |-> <<Lit("[PDF Document: "), Txt(RunsOf(file.name)),
                    Lit("]\n\nThis is a PDF document. The content will be processed on the server side for better text extraction and analysis.")>>]
  ELSE IF TypeIncludes(file.type, "markdown") \/ TypeIncludes(file.type, "text")
  THEN [state |-> "pending", value |-> <<>>]
  ELSE IF TypeIncludes(file.type, "wordprocessingml")
  THEN [state |-> "resolved",
        value |-> <<Lit("[DOCX Document: "), Txt(RunsOf(file.name)),
                    Lit("]\n\nThis is a Word document. The content will be processed on the server side for better text extraction and analysis.")>>]
  ELSE [state |-> "resolved",
        value |-> <<Lit("[Unsupported file type: "), Lit(file.type), Lit("]")>>]

\* ------------------------------------------------------------- generation
IMPROVE_FALLBACK == <<"I", "m", "p", "r", "o", "v", "e", " ", "e", "x", "i", "s", "t", "i", "n", "g", " ", "B", "R", "D", " ", "d", "o", "c", "u", "m", "e", "n", "t">>
FILES_FALLBACK == <<"P", "r", "o", "j", "e", "c", "t", " ", "r", "e", "q", "u", "i", "r", "e", "m", "e", "n", "t", "s", " ", "f", "r", "o", "m", " ", "u", "p", "l", "o", "a", "d", "e", "d", " ", "f", "i", "l", "e", "s">>
TEXT_FALLBACK == <<"P", "r", "o", "j", "e", "c", "t", " ", "r", "e", "q", "u", "i", "r", "e", "m", "e", "n", "t", "s">>

FILES_ENDPOINT == "/api/generate_brd_with_files"
TEXT_ENDPOINT == "/api/generate_brd_from_input"
MODEL_NAME == "gemini-2.0-flash"

\* ButtonEnabled without the isGenerating test
ButtonEnabled_IgnoresGenerating(v) ==
  ~(\/ v.isProcessingFiles
    \/ (/\ Trim(v.projectDescription) = <<>>
        /\ Trim(v.additionalInfo) = <<>>
        /\ Len(v.uploadedFiles) = 0))

\* the disabled attribute of the generate button, negated
ButtonEnabled(v) ==
  ~(\/ v.isGenerating
    \/ v.isProcessingFiles
    \/ (/\ Trim(v.projectDescription) = <<>>
        /\ Trim(v.additionalInfo) = <<>>
        /\ Len(v.uploadedFiles) = 0))

\* HasExistingBRD without toLowerCase
HasExistingBRD_CaseSensitive(files) ==
  \E i \in 1..Len(files) :
    \/ Includes(files[i].name, <<"b", "r", "d">>)
    \/ Includes(files[i].name, <<"b", "u", "s", "i", "n", "e", "s", "s", " ", "r", "e", "q", "u", "i", "r", "e", "m", "e", "n", "t", "s">>)
    \/ Includes(files[i].name, <<"r", "e", "q", "u", "i", "r", "e", "m", "e", "n", "t", "s", " ", "d", "o", "c", "u", "m", "e", "n", "t">>)

\* uploadedFiles.some(file => file.name.toLowerCase().includes(...))
HasExistingBRD(files) ==
  \E i \in 1..Len(files) :
    LET lower == ToLowerCase(files[i].name)
    IN \/ Includes(lower, <<"b", "r", "d">>)
       \/ Includes(lower, <<"b", "u", "s", "i", "n", "e", "s", "s", " ", "r", "e", "q", "u", "i", "r", "e", "m", "e", "n", "t", "s">>)
       \/ Includes(lower, <<"r", "e", "q", "u", "i", "r", "e", "m", "e", "n", "t", "s", " ", "d", "o", "c", "u", "m", "e", "n", "t">>)

\* FileContents mapped over the list as it is when the reads have resolved
FileContents_Live(g) ==
  [k \in 1..Len(uploadedFiles) |->
     [filename |-> uploadedFiles[k].name,
      content |-> IF k <= Len(g.reads) THEN g.reads[k].value ELSE <<>>,
      type |-> uploadedFiles[k].type]]

\* the array Promise.all resolves with
FileContents(g) ==
  [k \in 1..Len(g.files) |->
     [filename |-> g.files[k].name,
      content |-> g.reads[k].value,
      type |-> g.files[k].type]]

\* ComposeRequest whose text-only body leaves additionalInfo out
ComposeRequest_NoInfo(g) ==
  IF Len(g.files) > 0
  THEN IF HasExistingBRD(g.files)
       THEN [endpoint |-> FILES_ENDPOINT,
             project_description |-> OrElse(g.info, IMPROVE_FALLBACK),
             uploaded_files |-> FileContents(g),
             model |-> MODEL_NAME]
       ELSE [endpoint |-> FILES_ENDPOINT,
             project_description |->
               OrElse(g.desc, OrElse(g.info, FILES_FALLBACK)),
             uploaded_files |-> FileContents(g),
             model |-> MODEL_NAME]
  ELSE [endpoint |-> TEXT_ENDPOINT,
        project_description |-> OrElse(g.desc, TEXT_FALLBACK),
        uploaded_files |-> <<>>,
        model |-> MODEL_NAME]

\* the fetch call of generateBRD: endpoint and JSON body
ComposeRequest(g) ==
  IF Len(g.files) > 0
  THEN IF HasExistingBRD(g.files)
       THEN [endpoint |-> FILES_ENDPOINT,
             project_description |-> OrElse(g.info, IMPROVE_FALLBACK),
             uploaded_files |-> FileContents(g),
             model |-> MODEL_NAME]
       ELSE [endpoint |-> FILES_ENDPOINT,
             project_description |->
               OrElse(g.desc, OrElse(g.info, FILES_FALLBACK)),
             uploaded_files |-> FileContents(g),
             model |-> MODEL_NAME]
  ELSE [endpoint |-> TEXT_ENDPOINT,
        project_description |-> OrElse(g.desc, OrElse(g.info, TEXT_FALLBACK)),
        uploaded_files |-> <<>>,
        model |-> MODEL_NAME]

\* Dispatch that issues the call a second time
Dispatch_Retry(g) ==
  [g EXCEPT !.pc = "fetching",
            !.sent = Append(Append(@, ComposeRequest(g)), ComposeRequest(g))]

\* await fetch(...): the call is issued and the invocation waits for it
Dispatch(g) ==
  [g EXCEPT !.pc = "fetching", !.sent = Append(@, ComposeRequest(g))]

\* AllResolved satisfied by the first read that resolves
AllResolved_Any(g) == \E k \in 1..Len(g.reads) : g.reads[k].state = "resolved"

\* Promise.all(...) has resolved
AllResolved(g) == \A k \in 1..Len(g.reads) : g.reads[k].state = "resolved"

RemoveAt(seq, i) == SubSeq(seq, 1, i - 1) \o SubSeq(seq, i + 1, Len(seq))

\* click on the generate button: generateBRD up to its first suspension
GenerateBRD ==
  /\ ButtonEnabled(view)
  /\ Len(gens) < MaxGens
  /\ LET files == view.uploadedFiles
         g0 == [pc |-> "reading",
                files |-> files,
                desc |-> view.projectDescription,
                info |-> view.additionalInfo,
                reads |-> [k \in 1..Len(files) |-> ReadStart(files[k].file)],
                sent |-> <<>>]
     IN /\ isGenerating' = TRUE
        /\ error' = NULL
        /\ IF Len(files) > 0
           THEN IF AllResolved(g0)
                THEN /\ isProcessingFiles' = FALSE
                     /\ gens' = Append(gens, Dispatch(g0))
                ELSE /\ isProcessingFiles' = TRUE
                     /\ gens' = Append(gens, g0)
           ELSE /\ UNCHANGED isProcessingFiles
                /\ gens' = Append(gens, Dispatch(g0))
  /\ alerts' = <<>>
  /\ event' = [op |-> "generateBRD"]
  /\ UNCHANGED <<formVars, exportVars, uploadedFiles, nextId, result>>

\* reader.onload of file k of invocation i; the last one resolves the join
ReadLoad(i, k) ==
  /\ i \in 1..Len(gens)
  /\ gens[i].pc = "reading"
  /\ k \in 1..Len(gens[i].reads)
  /\ gens[i].reads[k].state = "pending"
  /\ LET g1 == [gens[i] EXCEPT
                  !.reads[k] = [state |-> "resolved",
                                value |-> OnLoad(gens[i].files[k].file.content)]]
     IN IF AllResolved(g1)
        THEN /\ isProcessingFiles' = FALSE
             /\ gens' = [gens EXCEPT ![i] = Dispatch(g1)]
        ELSE /\ UNCHANGED isProcessingFiles
             /\ gens' = [gens EXCEPT ![i] = g1]
  /\ alerts' = <<>>
  /\ event' = [op |-> "reader.onload"]
  /\ UNCHANGED <<formVars, exportVars, uploadedFiles, nextId, isGenerating,
                 result, error>>

\* Finish without the finally block
Finish_NoFinally(i, outcome) ==
  /\ gens' = RemoveAt(gens, i)
  /\ UNCHANGED isGenerating
  /\ alerts' = <<>>
  /\ event' = [op |-> "generateBRD.end", outcome |-> outcome, gen |-> gens[i]]
  /\ UNCHANGED <<formVars, exportVars, uploadedFiles, nextId>>

\* how generateBRD leaves through catch and finally
Finish(i, outcome) ==
  /\ gens' = RemoveAt(gens, i)
  /\ isGenerating' = FALSE
  /\ alerts' = <<>>
  /\ event' = [op |-> "generateBRD.end", outcome |-> outcome, gen |-> gens[i]]
  /\ UNCHANGED <<formVars, exportVars, uploadedFiles, nextId>>

\* reader.onerror of file k of invocation i: Promise.all rejects
ReadError(i, k) ==
  /\ i \in 1..Len(gens)
  /\ gens[i].pc = "reading"
  /\ k \in 1..Len(gens[i].reads)
  /\ gens[i].reads[k].state = "pending"
  /\ error' = "Failed to read file"
  /\ Finish(i, "read failed")
  /\ UNCHANGED <<isProcessingFiles, result>>

\* FetchOk that keeps a result already stored
FetchOk_KeepFirst(i, data) ==
  /\ i \in 1..Len(gens)
  /\ gens[i].pc = "fetching"
  /\ result' = IF result = None THEN Some(data) ELSE result
  /\ gens' = RemoveAt(gens, i)
  /\ isGenerating' = FALSE
  /\ alerts' = <<>>
  /\ event' = [op |-> "generateBRD.end", outcome |-> "ok", gen |-> gens[i],
               data |-> data]
  /\ UNCHANGED <<formVars, exportVars, uploadedFiles, nextId,
                 isProcessingFiles, error>>

\* the response is ok and its JSON is the result: setResult(data), then
\* finally
FetchOk(i, data) ==
  /\ i \in 1..Len(gens)
  /\ gens[i].pc = "fetching"
  /\ result' = Some(data)
  /\ gens' = RemoveAt(gens, i)
  /\ isGenerating' = FALSE
  /\ alerts' = <<>>
  /\ event' = [op |-> "generateBRD.end", outcome |-> "ok", gen |-> gens[i],
               data |-> data]
  /\ UNCHANGED <<formVars, exportVars, uploadedFiles, nextId,
                 isProcessingFiles, error>>

\* !response.ok
FetchNotOk(i, status) ==
  /\ i \in 1..Len(gens)
  /\ gens[i].pc = "fetching"
  /\ error' = "HTTP error! status: " \o ToString(status)
  /\ Finish(i, "status")
  /\ UNCHANGED <<isProcessingFiles, result>>

\* fetch rejects (transport failure) or response.json() rejects, with the
\* message of the error
FetchReject(i, message) ==
  /\ i \in 1..Len(gens)
  /\ gens[i].pc = "fetching"
  /\ error' = IF message # "" THEN message ELSE "Failed to generate BRD"
  /\ Finish(i, "transport")
  /\ UNCHANGED <<isProcessingFiles, result>>

\* onChange of the two textareas
SetProjectDescription(text) ==
  /\ projectDescription' = text
  /\ alerts' = <<>>
  /\ event' = [op |-> "setProjectDescription"]
  /\ UNCHANGED <<additionalInfo, genVars, exportVars, uploadedFiles, nextId>>

SetAdditionalInfo(text) ==
  /\ additionalInfo' = text
  /\ alerts' = <<>>
  /\ event' = [op |-> "setAdditionalInfo"]
  /\ UNCHANGED <<projectDescription, genVars, exportVars, uploadedFiles, nextId>>

\* ----------------------------------------------------------------- export
A4_WIDTH == 210
A4_HEIGHT == 295
CANVAS_WIDTH == 800 * 3

\* name.replace(/\s+/g, '_')
RECURSIVE ReplaceSpaces(_)
ReplaceSpaces(s) ==
  IF s = <<>> THEN <<>>
  ELSE IF IsSpace(Head(s))
  THEN <<"_">> \o ReplaceSpaces(TrimStart(s))
  ELSE <<Head(s)>> \o ReplaceSpaces(Tail(s))

\* the page loop of downloadPDF on heights scaled by canvas.width, so that
\* imgHeight = canvas.height * imgWidth / canvas.width stays exact:
\* pages added so far and the height left
RECURSIVE PageLoop(_, _, _)
PageLoop(pages, heightLeft, pageHeight) ==
  IF heightLeft >= 0
  THEN PageLoop(pages + 1, heightLeft - pageHeight, pageHeight)
  ELSE pages

\* pages of the document for a canvas: the first page, then the loop
PageCount(canvas) ==
  LET imgHeight == canvas.height * A4_WIDTH
      pageHeight == A4_HEIGHT * canvas.width
  IN PageLoop(1, imgHeight - pageHeight, pageHeight)

SavedFile(nm, ty, txt, n) == [name |-> nm, type |-> ty, content |-> txt, pages |-> n]

\* DownloadBRD whose blob misses the last character of the document
DownloadBRD_Truncated ==
  /\ view.result # None
  /\ download' = Some(SavedFile(ReplaceSpaces(view.result[1].project_name) \o <<"_", "B", "R", "D", ".", "m", "d">>,
                                "text/markdown",
                                Substring0(view.result[1].brd_markdown,
                                           StrLen(view.result[1].brd_markdown) - 1), 0))
  /\ alerts' = <<>>
  /\ event' = [op |-> "downloadBRD"]
  /\ UNCHANGED <<formVars, genVars, uploadedFiles, nextId, isGeneratingPDF,
                 exports, bodyChildren>>

\* click on "Download BRD (Markdown)"
DownloadBRD ==
  /\ view.result # None
  /\ download' = Some(SavedFile(ReplaceSpaces(view.result[1].project_name) \o <<"_", "B", "R", "D", ".", "m", "d">>,
                                "text/markdown", view.result[1].brd_markdown, 0))
  /\ alerts' = <<>>
  /\ event' = [op |-> "downloadBRD"]
  /\ UNCHANGED <<formVars, genVars, uploadedFiles, nextId, isGeneratingPDF,
                 exports, bodyChildren>>

\* click on "Download PDF": downloadPDF up to await html2canvas(...)
DownloadPDF ==
  /\ view.result # None
  /\ ~view.isGeneratingPDF
  /\ Len(exports) < MaxExports
  /\ bodyChildren < MaxLeaked
  /\ isGeneratingPDF' = TRUE
  /\ bodyChildren' = bodyChildren + 1
  /\ exports' = Append(exports, [result |-> view.result[1]])
  /\ alerts' = <<>>
  /\ event' = [op |-> "downloadPDF"]
  /\ UNCHANGED <<formVars, genVars, uploadedFiles, nextId, download>>

\* ExportEnds without the finally block
ExportEnds_NoFinally(i, outcome) ==
  /\ exports' = RemoveAt(exports, i)
  /\ UNCHANGED isGeneratingPDF
  /\ event' = [op |-> "downloadPDF.end", outcome |-> outcome]
  /\ UNCHANGED <<formVars, genVars, uploadedFiles, nextId>>

\* how downloadPDF leaves through finally
ExportEnds(i, outcome) ==
  /\ exports' = RemoveAt(exports, i)
  /\ isGeneratingPDF' = FALSE
  /\ event' = [op |-> "downloadPDF.end", outcome |-> outcome]
  /\ UNCHANGED <<formVars, genVars, uploadedFiles, nextId>>

\* html2canvas resolves; the container is removed, the pages are added and
\* the document is saved
CanvasReady(i, canvas) ==
  /\ i \in 1..Len(exports)
  /\ bodyChildren' = bodyChildren - 1
  /\ download' = Some(SavedFile(ReplaceSpaces(exports[i].result.project_name) \o <<"_", "B", "R", "D", ".", "p", "d", "f">>,
                                "application/pdf", <<>>, PageCount(canvas)))
  /\ alerts' = <<>>
  /\ exports' = RemoveAt(exports, i)
  /\ isGeneratingPDF' = FALSE
  /\ event' = [op |-> "downloadPDF.end", outcome |-> "saved", canvas |-> canvas]
  /\ UNCHANGED <<formVars, genVars, uploadedFiles, nextId>>

\* html2canvas resolves; the container is removed and jsPDF throws while
\* the pages are added
PaginationThrows(i) ==
  /\ i \in 1..Len(exports)
  /\ bodyChildren' = bodyChildren - 1
  /\ alerts' = <<[kind |-> "pdf error", count |-> 1]>>
  /\ ExportEnds(i, "pagination failed")
  /\ UNCHANGED download

\* html2canvas rejects: control goes to catch, past removeChild
RasterFails(i) ==
  /\ i \in 1..Len(exports)
  /\ alerts' = <<[kind |-> "pdf error", count |-> 1]>>
  /\ ExportEnds(i, "rasterization failed")
  /\ UNCHANGED <<bodyChildren, download>>

\* ------------------------------------------------------------- scheduling
\* React commits a render after the handler: each event is followed by its
\* render before the next event is handled
Commit == view' = ViewOf'

\* the handler has run and its render is still to come
Defer == UNCHANGED view

\* the committed render catches up with the state
Render ==
  /\ view # ViewOf
  /\ view' = ViewOf
  /\ UNCHANGED <<formVars, genVars, exportVars, uploadedFiles, nextId,
                 alerts, event>>

\* ------------------------------------------- intake, renders not ordered
IntakeBatch == \E files \in IntakeBatches : ProcessFiles(files) /\ Defer
IntakeRemove == \E fileId \in 1..MaxId : RemoveFile(fileId) /\ Defer

NextIntake == IntakeBatch \/ IntakeRemove \/ Render
SpecIntake == Init /\ [][NextIntake]_vars

\* ------------------------------- removal from a list that is on display
\* a batch has been taken in and rendered
InitRemove ==
  \E files \in IntakeBatches :
    LET out == ProcessOutcome(files, 0)
    IN /\ projectDescription = <<>>
       /\ additionalInfo = <<>>
       /\ uploadedFiles = MkDescriptors(out.accepted, 1)
       /\ isGenerating = FALSE
       /\ isGeneratingPDF = FALSE
       /\ isProcessingFiles = FALSE
       /\ result = None
       /\ error = NULL
       /\ view = ViewOf
       /\ nextId = Len(out.accepted) + 1
       /\ alerts = out.alerts
       /\ event = [op |-> "processFiles", files |-> files]
       /\ gens = <<>>
       /\ exports = <<>>
       /\ bodyChildren = 0
       /\ download = None

\* one more file is picked
OneMore == ProcessFiles(<<F_xmd>>) /\ Defer

NextRemove == OneMore \/ IntakeRemove \/ Render
SpecRemove == InitRemove /\ [][NextRemove]_vars

\* ------------------------------------- intake, a render after every event
SyncBatch == \E files \in IntakeBatches : ProcessFiles(files) /\ Commit
SyncRemove == \E fileId \in 1..MaxId : RemoveFile(fileId) /\ Commit

NextIntakeSync == SyncBatch \/ SyncRemove
SpecIntakeSync == Init /\ [][NextIntakeSync]_vars

\* ------------------------------------------ the form and the generation
DescriptionInputs == {<<>>, <<" ">>, <<"C", "R", "M">>}
InfoInputs == {<<>>, <<"x">>}

F_notes == MkFile(<<"n", "o", "t", "e", "s", ".", "m", "d">>, 300, MD_TYPE, <<Run("a", 2), Run("b", 1)>>)

AttachBatches == {<<F_brd_pdf>>, <<F_notes>>}

R_first == [message |-> "BRD generated successfully",
            project_name |-> <<"M", "y", " ", " ", "C", "R", "M">>,
            brd_markdown |-> <<Run("#", 1), Run("a", 4)>>,
            llm_provider_used |-> "gemini"]
R_second == [message |-> "BRD improved",
             project_name |-> <<"S", "h", "o", "p">>,
             brd_markdown |-> <<Run("b", 2)>>,
             llm_provider_used |-> "gemini"]
Results == {R_first, R_second}

Statuses == {500}
RejectMessages == {"Failed to fetch", ""}

Attach ==
  \E files \in AttachBatches :
    /\ Len(uploadedFiles) + Len(files) <= MaxAttached
    /\ ProcessFiles(files) /\ Commit
Detach == \E fileId \in 1..MaxId : RemoveFile(fileId) /\ Commit
EditDescription == \E text \in DescriptionInputs : SetProjectDescription(text) /\ Commit
EditInfo == \E text \in InfoInputs : SetAdditionalInfo(text) /\ Commit
Generate == GenerateBRD /\ Commit
Load == \E i \in 1..MaxGens, k \in 1..MaxAttached : ReadLoad(i, k) /\ Commit
ReadFails == \E i \in 1..MaxGens, k \in 1..MaxAttached : ReadError(i, k) /\ Commit
ResponseOk == \E i \in 1..MaxGens, data \in Results : FetchOk(i, data) /\ Commit
ResponseNotOk == \E i \in 1..MaxGens, status \in Statuses : FetchNotOk(i, status) /\ Commit
Rejected == \E i \in 1..MaxGens, message \in RejectMessages : FetchReject(i, message) /\ Commit

Next ==
  \/ Attach \/ EditDescription \/ EditInfo \/ Generate
  \/ Load \/ ReadFails \/ ResponseOk \/ ResponseNotOk \/ Rejected
Spec == Init /\ [][Next]_vars

\* the same, with files removed again while generations are in flight
NextEdit == Next \/ Detach
SpecEdit == Init /\ [][NextEdit]_vars

\* ------------------------------------------------------------ the exports
\* a result is on display
InitExport ==
  \E data \in Results :
    /\ projectDescription = <<"C", "R", "M">>
    /\ additionalInfo = <<>>
    /\ uploadedFiles = <<>>
    /\ isGenerating = FALSE
    /\ isGeneratingPDF = FALSE
    /\ isProcessingFiles = FALSE
    /\ result = Some(data)
    /\ error = NULL
    /\ view = ViewOf
    /\ nextId = 1
    /\ alerts = <<>>
    /\ event = [op |-> "generateBRD.end", outcome |-> "ok"]
    /\ gens = <<>>
    /\ exports = <<>>
    /\ bodyChildren = 0
    /\ download = None

\* canvases html2canvas may deliver: scale 3 of the 800px container
Canvases ==
  {[width |-> CANVAS_WIDTH, height |-> h] :
     h \in {(q * A4_HEIGHT * CANVAS_WIDTH) \div (4 * A4_WIDTH) + d :
              q \in 1..MaxCanvas, d \in {0, 1}}}

ExportText == DownloadBRD /\ Commit
ExportPdf == DownloadPDF /\ Commit
Rasterized == \E i \in 1..MaxExports, canvas \in Canvases : CanvasReady(i, canvas) /\ Commit
PagesFail == \E i \in 1..MaxExports : PaginationThrows(i) /\ Commit
RasterFail == \E i \in 1..MaxExports : RasterFails(i) /\ Commit

NextExport == ExportText \/ ExportPdf \/ Rasterized \/ PagesFail \/ RasterFail
SpecExport == InitExport /\ [][NextExport]_vars

\* canvases whose image height is a whole number of pages, or a few pixel
\* rows away from it: 7 pages of 295 mm are 23600 rows of a 2400 wide canvas
PagingCanvases ==
  Canvases \cup
  {[width |-> CANVAS_WIDTH, height |-> ((m * 7 * A4_HEIGHT * CANVAS_WIDTH) \div A4_WIDTH) + d] :
     m \in 1..MaxStacks, d \in {-3, -1, 0, 1, 3}}

PagingRasterized ==
  \E i \in 1..MaxExports, canvas \in PagingCanvases : CanvasReady(i, canvas) /\ Commit

NextPaging == ExportPdf \/ PagingRasterized \/ PagesFail
SpecPaging == InitExport /\ [][NextPaging]_vars

\* a result is on display after one or more generations, the last of which
\* may have failed, with or without an attached file
InitShown ==
  \E data \in Results, failed \in BOOLEAN, files \in {<<>>, <<F_notes>>} :
    /\ projectDescription = <<"C", "R", "M">>
    /\ additionalInfo = <<>>
    /\ uploadedFiles = MkDescriptors(files, 1)
    /\ isGenerating = FALSE
    /\ isGeneratingPDF = FALSE
    /\ isProcessingFiles = FALSE
    /\ result = Some(data)
    /\ error = IF failed THEN "Failed to fetch" ELSE NULL
    /\ view = ViewOf
    /\ nextId = Len(files) + 1
    /\ alerts = <<>>
    /\ event = [op |-> "generateBRD.end",
                outcome |-> IF failed THEN "transport" ELSE "ok"]
    /\ gens = <<>>
    /\ exports = <<>>
    /\ bodyChildren = 0
    /\ download = None

SpecShown == InitShown /\ [][NextExport]_vars

\* -------------------------------------------------------- the extraction
NearThreshold == (TRUNCATE_AT - MaxExtra)..(TRUNCATE_AT + MaxExtra)

Contents ==
  {<<>>}
  \cup {<<Run("a", n)>> : n \in NearThreshold \cup 1..MaxExtra}
  \cup {<<Run("a", n), Run("b", m)>> :
          n \in NearThreshold \cup {1}, m \in 1..MaxExtra}

ExtractFiles ==
  {MkFile(<<"d", "o", "c", ".", "m", "d">>, StrLen(txt), ty, txt) : txt \in Contents, ty \in {MD_TYPE, XMD_TYPE}}

\* one text file is attached
InitExtract ==
  \E file \in ExtractFiles :
    /\ projectDescription = <<>>
    /\ additionalInfo = <<>>
    /\ uploadedFiles = MkDescriptors(<<file>>, 1)
    /\ isGenerating = FALSE
    /\ isGeneratingPDF = FALSE
    /\ isProcessingFiles = FALSE
    /\ result = None
    /\ error = NULL
    /\ view = ViewOf
    /\ nextId = 2
    /\ alerts = <<>>
    /\ event = [op |-> "processFiles", files |-> <<file>>]
    /\ gens = <<>>
    /\ exports = <<>>
    /\ bodyChildren = 0
    /\ download = None

NextExtract == Generate \/ Load \/ ReadFails
SpecExtract == InitExtract /\ [][NextExtract]_vars

\* ------------------------------------------------------ the whole session
\* files come and go, generations run and the result on display is exported;
\* the canvas is one page high
OnePage == [width |-> CANVAS_WIDTH, height |-> CANVAS_WIDTH]

LifeRasterized == \E i \in 1..MaxExports : CanvasReady(i, OnePage) /\ Commit

NextLife ==
  \/ Attach \/ Detach \/ Generate
  \/ Load \/ ReadFails \/ ResponseOk \/ ResponseNotOk \/ Rejected
  \/ ExportText \/ ExportPdf \/ LifeRasterized \/ PagesFail
SpecLife == Init /\ [][NextLife]_vars

\* ------------------------------------------------------- intake: claims
\* a candidate that passes the type and size rules, stated from the
\* published limits
Allowed(file) ==
  /\ file.type \in {"application/pdf", "text/markdown", "text/x-markdown",
                    "application/vnd.openxmlformats-officedocument.wordprocessingml.document"}
  /\ file.size <= 10485760

HasAlert(k) == \E i \in 1..Len(alerts) : alerts[i].kind = k

\* the candidates of a batch that fail the type or the size rule
Refused(files) == SelectSeq(files, LAMBDA f : ~Allowed(f))

\* C19: the candidates of a batch rejected for type or size are never added
\* to the accepted collection; whenever at least one is rejected the user
\* is notified once with their number; a batch of rejected candidates only
\* leaves the collection unchanged.
C19_RejectedCounted ==
  [][ event'.op = "processFiles" =>
        LET n == Len(Refused(event'.files))
        IN /\ Len(uploadedFiles') >= Len(uploadedFiles)
           /\ \A i \in (Len(uploadedFiles) + 1)..Len(uploadedFiles') :
                 /\ Allowed(uploadedFiles'[i].file)
                 /\ \E j \in 1..Len(event'.files) :
                       uploadedFiles'[i].file = event'.files[j]
           /\ n > 0 =>
                 /\ Len(SelectSeq(alerts', LAMBDA a : a.kind = "rejected")) = 1
                 /\ \E k \in 1..Len(alerts') :
                       alerts'[k].kind = "rejected" /\ alerts'[k].count = n
           /\ n = Len(event'.files) => uploadedFiles' = uploadedFiles ]_vars

\* a batch with a file of a refused type and a file above the size limit
\* has been taken in: two rejections were reported and the rest was added
C19_Witness ==
  /\ event.op = "processFiles"
  /\ \E j \in 1..Len(event.files) : event.files[j].type = "image/png"
  /\ \E j \in 1..Len(event.files) :
        event.files[j].type = "text/markdown" /\ event.files[j].size > 10485760
  /\ \E k \in 1..Len(alerts) : alerts[k].kind = "rejected" /\ alerts[k].count = 2
  /\ \E i \in 1..Len(uploadedFiles) : uploadedFiles[i].type = "text/markdown"

\* C18: removeFile(id) removes exactly the descriptors whose id is the given
\* one and keeps every other descriptor, in order and unchanged; it leaves
\* the list unchanged when no descriptor has that id, and changes no other
\* state.
C18_RemoveFrame ==
  [][ event'.op = "removeFile" =>
        /\ uploadedFiles' = SelectSeq(uploadedFiles, LAMBDA f : f.id # event'.id)
        /\ (\A i \in 1..Len(uploadedFiles) : uploadedFiles[i].id # event'.id) =>
              uploadedFiles' = uploadedFiles
        /\ UNCHANGED <<projectDescription, additionalInfo, isGenerating,
                       isGeneratingPDF, isProcessingFiles, result, error,
                       download, bodyChildren>> ]_vars

\* the second of six files has just been removed
C18_Witness ==
  /\ event.op = "removeFile"
  /\ event.id = 2
  /\ Len(uploadedFiles) >= 5
  /\ uploadedFiles[1].id = 1
  /\ \A i \in 2..5 : uploadedFiles[i].id = i + 1

C2_Truncation ==
  [][ event'.op = "processFiles" =>
        LET valid == SelectSeq(event'.files, Allowed)
            cur == Len(uploadedFiles)
        IN Len(valid) > 10 - cur =>
             IF cur < 10
             THEN /\ Len(uploadedFiles') = 10
                  /\ SubSeq(uploadedFiles', 1, cur) = uploadedFiles
                  /\ \A i \in 1..(10 - cur) :
                        uploadedFiles'[cur + i].file = valid[i]
             ELSE /\ cur = 10
                  /\ uploadedFiles' = uploadedFiles
                  /\ HasAlert("full")' ]_vars

\* a batch has just been cut to the remaining capacity
C2_Witness ==
  /\ event.op = "processFiles"
  /\ Len(uploadedFiles) = 10
  /\ \E i \in 1..Len(alerts) :
        /\ alerts[i].kind = "limit"
        /\ alerts[i].count < Len(SelectSeq(event.files, Allowed))

\* C3: every accepted descriptor has an allow-listed type and a size of at
\* most 10 MiB; candidates of exactly 10 MiB with an allowed type are
\* accepted and candidates of 10 MiB + 1 byte are not (a batch not cut by
\* the count limit ends the list with exactly its allowed candidates).
C3_TypeAndSize ==
  /\ \A i \in 1..Len(uploadedFiles) :
        /\ uploadedFiles[i].type \in
             {"application/pdf", "text/markdown", "text/x-markdown",
              "application/vnd.openxmlformats-officedocument.wordprocessingml.document"}
        /\ uploadedFiles[i].size <= 10485760
        /\ uploadedFiles[i].type = uploadedFiles[i].file.type
        /\ uploadedFiles[i].size = uploadedFiles[i].file.size
  /\ (event.op = "processFiles" /\ ~HasAlert("limit") /\ ~HasAlert("full")) =>
        LET ok == SelectSeq(event.files, Allowed)
            n == Len(uploadedFiles)
        IN /\ n >= Len(ok)
           /\ \A j \in 1..Len(ok) : uploadedFiles[n - Len(ok) + j].file = ok[j]

\* a batch holding a 10 MiB file and a 10 MiB + 1 file was taken in
C3_Witness ==
  /\ event.op = "processFiles"
  /\ ~HasAlert("limit") /\ ~HasAlert("full")
  /\ \E i \in 1..Len(event.files) : event.files[i].size = 10485760
  /\ \E i \in 1..Len(event.files) : event.files[i].size = 10485761
  /\ \E i \in 1..Len(uploadedFiles) : uploadedFiles[i].size = 10485760

\* --------------------------------------------------- generation: claims
Ended(outcomes) == event.op = "generateBRD.end" /\ event.outcome \in outcomes

\* C5 as stated: every generation action issues exactly one outbound call,
\* whatever its outcome, a file-read failure included.
C5_ExactlyOneCall ==
  event.op = "generateBRD.end" => Len(event.gen.sent) = 1

\* C5 as amended: a generation action never issues more than one outbound
\* call; it has issued exactly one when it ends in success, a non-success
\* status or a transport failure, and none when it ends by a file-read
\* failure.
C5_OneCallUnlessReadFails ==
  /\ \A i \in 1..Len(gens) :
       /\ Len(gens[i].sent) <= 1
       /\ gens[i].pc = "fetching" <=> Len(gens[i].sent) = 1
  /\ Ended({"ok", "status", "transport"}) => Len(event.gen.sent) = 1
  /\ Ended({"read failed"}) => Len(event.gen.sent) = 0

C5_Witness == Ended({"read failed"}) /\ Len(event.gen.files) = 2

\* the invocation started by the step
Started == gens'[Len(gens')]

\* C7 as stated: with zero attached files the text-only endpoint is called
\* and project_description is the description field when non-empty and the
\* fixed fallback string when the description field is empty, whatever the
\* additional-info field holds.
C7_DescriptionOrFallback ==
  [][ (event'.op = "generateBRD" /\ Len(uploadedFiles) = 0) =>
        /\ Len(Started.sent) = 1
        /\ Started.sent[1].endpoint = "/api/generate_brd_from_input"
        /\ Started.sent[1].project_description =
             IF projectDescription # <<>> THEN projectDescription
             ELSE <<"P", "r", "o", "j", "e", "c", "t", " ", "r", "e", "q", "u", "i", "r", "e", "m", "e", "n", "t", "s">> ]_vars

\* C7 as amended: with zero attached files the text-only endpoint is called
\* and project_description is the description field when non-empty and the
\* additional-info text when the description field is empty; the fixed
\* fallback string is never sent there.
C7_DescriptionOrInfo ==
  [][ (event'.op = "generateBRD" /\ Len(uploadedFiles) = 0) =>
        /\ Len(Started.sent) = 1
        /\ Started.sent[1].endpoint = "/api/generate_brd_from_input"
        /\ Started.sent[1].uploaded_files = <<>>
        /\ Started.sent[1].project_description =
             IF projectDescription # <<>> THEN projectDescription
             ELSE additionalInfo
        /\ Started.sent[1].project_description # <<"P", "r", "o", "j", "e", "c", "t", " ", "r", "e", "q", "u", "i", "r", "e", "m", "e", "n", "t", "s">> ]_vars

C7_Witness ==
  \E i \in 1..Len(gens) :
    /\ gens[i].files = <<>>
    /\ gens[i].desc = <<>>
    /\ gens[i].pc = "fetching"
    /\ gens[i].sent[1].project_description = additionalInfo
    /\ additionalInfo # <<>>

\* one attached file whose name contains "brd" in any letter case
OneBrdFile(files) ==
  /\ Len(files) = 1
  /\ Includes(ToLowerCase(files[1].name), <<"b", "r", "d">>)

\* C8 as stated: one attached file named like a BRD and an empty description
\* field: the files endpoint is called with the "improve existing document"
\* fallback as project_description.
C8_ImproveFallback ==
  \A i \in 1..Len(gens) :
    (gens[i].pc = "fetching" /\ OneBrdFile(gens[i].files) /\ gens[i].desc = <<>>) =>
      /\ gens[i].sent[1].endpoint = "/api/generate_brd_with_files"
      /\ gens[i].sent[1].project_description = <<"I", "m", "p", "r", "o", "v", "e", " ", "e", "x", "i", "s", "t", "i", "n", "g", " ", "B", "R", "D", " ", "d", "o", "c", "u", "m", "e", "n", "t">>

\* C8 as amended: one attached file named like a BRD and an empty description
\* field: the files endpoint is called, and project_description is the
\* additional-info text when that is non-empty and the "improve existing
\* document" fallback when it is empty.
C8_InfoOrImproveFallback ==
  \A i \in 1..Len(gens) :
    (gens[i].pc = "fetching" /\ OneBrdFile(gens[i].files) /\ gens[i].desc = <<>>) =>
      /\ gens[i].sent[1].endpoint = "/api/generate_brd_with_files"
      /\ gens[i].sent[1].project_description =
           IF gens[i].info # <<>> THEN gens[i].info
           ELSE <<"I", "m", "p", "r", "o", "v", "e", " ", "e", "x", "i", "s", "t", "i", "n", "g", " ", "B", "R", "D", " ", "d", "o", "c", "u", "m", "e", "n", "t">>

C8_Witness ==
  \E i \in 1..Len(gens) :
    /\ gens[i].pc = "fetching"
    /\ OneBrdFile(gens[i].files)
    /\ gens[i].desc = <<>>
    /\ gens[i].info = <<>>
    /\ gens[i].files[1].name # ToLowerCase(gens[i].files[1].name)

\* C9: after a generation whose network call returned a non-success status
\* or failed in transport, one error message is stored, isGenerating and
\* isProcessingFiles are both false, and with the inputs of that generation
\* the trigger is enabled again.
C9_FailureResets ==
  Ended({"status", "transport"}) =>
    /\ error \in {"HTTP error! status: 500", "Failed to fetch", "Failed to generate BRD"}
    /\ isGenerating = FALSE
    /\ isProcessingFiles = FALSE
    /\ (/\ projectDescription = event.gen.desc
        /\ additionalInfo = event.gen.info
        /\ uploadedFiles = event.gen.files) => ButtonEnabled(view)

C9_Witness ==
  /\ Ended({"status"})
  /\ Len(event.gen.files) > 0
  /\ uploadedFiles = event.gen.files
  /\ ButtonEnabled(view)

\* C10: the network call of a generation with attached files is issued only
\* after every file read of the batch has completed successfully, carrying
\* what the reads produced; when a read fails no call is issued, the
\* submission ends with the error state set and the stored result is
\* unchanged.
C10_AllOrNothingJoin ==
  [][ /\ \A i \in 1..Len(gens') :
           (Len(gens'[i].files) > 0 /\ Len(gens'[i].sent) > 0) =>
             /\ \A k \in 1..Len(gens'[i].reads) :
                  gens'[i].reads[k].state = "resolved"
             /\ Len(gens'[i].sent[1].uploaded_files) = Len(gens'[i].files)
             /\ \A k \in 1..Len(gens'[i].files) :
                  gens'[i].sent[1].uploaded_files[k].content = gens'[i].reads[k].value
      /\ (event'.op = "generateBRD.end" /\ event'.outcome = "read failed") =>
           /\ Len(gens') < Len(gens)
           /\ event'.gen.sent = <<>>
           /\ error' = "Failed to read file"
           /\ isGenerating' = FALSE
           /\ result' = result ]_vars

C10_Witness ==
  /\ Ended({"read failed"})
  /\ Len(event.gen.reads) = 2
  /\ \E k \in 1..2 : event.gen.reads[k].state = "resolved"
  /\ result # None
  /\ error # NULL

\* C11: at most one generation is in flight at any time: while one is
\* pending at a file read or at the network call the trigger is rendered
\* disabled, and no generateBRD starts before the earlier one has ended.
C11_OneInFlight ==
  /\ Len(gens) <= 1
  /\ gens # <<>> => (view.isGenerating \/ view.isProcessingFiles)
  /\ event.op = "generateBRD" => Len(gens) = 1

\* a generation with two files is past its reads and waits for the response
C11_Witness ==
  /\ Len(gens) = 1
  /\ gens[1].pc = "fetching"
  /\ Len(gens[1].files) = 2
  /\ ~isProcessingFiles
  /\ result # None

\* C12: a generation triggered with attached files calls the files endpoint,
\* whether or not a file name matches the existing-document heuristic; its
\* uploaded_files has one entry per file of the accepted collection as it
\* was when the generation was triggered, in list order, with that file's
\* name, type and extracted content; files added or removed while the
\* submission is in flight do not change the payload.
C12_PayloadAtTrigger ==
  [][ /\ (event'.op = "generateBRD" /\ Len(uploadedFiles) > 0) =>
           Started.files = uploadedFiles
      /\ Len(gens') = Len(gens) =>
           \A i \in 1..Len(gens) :
             /\ gens'[i].files = gens[i].files
             /\ gens[i].sent # <<>> => gens'[i].sent = gens[i].sent
      /\ \A i \in 1..Len(gens') :
           (Len(gens'[i].files) > 0 /\ gens'[i].sent # <<>>) =>
             LET files == gens'[i].files
                 body == gens'[i].sent[1]
             IN /\ body.endpoint = "/api/generate_brd_with_files"
                /\ Len(body.uploaded_files) = Len(files)
                /\ \A k \in 1..Len(files) :
                     /\ body.uploaded_files[k].filename = files[k].name
                     /\ body.uploaded_files[k].type = files[k].type
                     /\ body.uploaded_files[k].content = gens'[i].reads[k].value ]_vars

\* the payload of one file has just been sent although a second file was
\* added while the first was being read
C12_Witness ==
  /\ event.op = "reader.onload"
  /\ Len(gens) = 1
  /\ Len(gens[1].sent) = 1
  /\ Len(gens[1].sent[1].uploaded_files) = 1
  /\ Len(uploadedFiles) = 2

\* C13: the stored result changes only when a generation call succeeds, and
\* then it becomes that call's response, replacing any previous result;
\* failed generations, the start of a new generation, file intake, file
\* removal and both exports leave it unchanged.
C13_ResultLifecycle ==
  [][ IF event'.op = "generateBRD.end" /\ event'.outcome = "ok"
      THEN result' = <<event'.data>>
      ELSE result' = result ]_vars

\* a generation has just succeeded after the previous result was exported
\* as text: the stored result is no longer the exported one
C13_Witness ==
  /\ Ended({"ok"})
  /\ result = <<event.data>>
  /\ download # None
  /\ download[1].type = "text/markdown"
  /\ download[1].content # result[1].brd_markdown

\* C16: for a submission with attached files and a non-empty description
\* field the request sent is the same whether or not a file name matches the
\* existing-document heuristic: the files endpoint, the description field as
\* project_description, the extracted files and the model.
C16_HeuristicOnlyDefault ==
  \A i \in 1..Len(gens) :
    (Len(gens[i].files) > 0 /\ gens[i].desc # <<>> /\ gens[i].sent # <<>>) =>
      /\ gens[i].sent[1].endpoint = "/api/generate_brd_with_files"
      /\ gens[i].sent[1].project_description = gens[i].desc
      /\ gens[i].sent[1].model = "gemini-2.0-flash"
      /\ Len(gens[i].sent[1].uploaded_files) = Len(gens[i].files)

\* C20: whenever no generation is in flight isProcessingFiles is false and
\* the render shows it so: after a submission ended by a file-read failure
\* the generate button and the remove buttons are usable again.
C20_ProcessingOnlyInFlight ==
  gens = <<>> => (~isProcessingFiles /\ ~view.isProcessingFiles)

\* C21: every request sent carries a project_description with at least one
\* character that is not whitespace, whatever description, additional
\* information and files the generation was triggered with.
C21_MeaningfulDescription ==
  \A i \in 1..Len(gens) :
    \A r \in 1..Len(gens[i].sent) :
      \E k \in 1..Len(gens[i].sent[r].project_description) :
        gens[i].sent[r].project_description[k] \notin {" ", "\n", "\t"}

\* --------------------------------------------------- extraction: claims
\* the text p is the first StrLen(p) characters of the text s
IsPrefix(p, s) ==
  /\ StrLen(p) <= StrLen(s)
  /\ \A i \in 0..(StrLen(p) - 1) : CharAt(p, i) = CharAt(s, i)

\* the reads of text-like files that have resolved: content and output
ResolvedTexts ==
  UNION {{[content |-> gens[i].files[k].file.content,
           output |-> gens[i].reads[k].value] :
            k \in {j \in 1..Len(gens[i].files) :
                     /\ gens[i].files[j].type \in {"text/markdown", "text/x-markdown"}
                     /\ gens[i].reads[j].state = "resolved"}} :
         i \in 1..Len(gens)}

IsTruncated(content, output) ==
  /\ Len(output) = 2
  /\ output[1].lit = ""
  /\ StrLen(output[1].txt) = 50000
  /\ IsPrefix(output[1].txt, content)
  /\ output[2] = [lit |-> "\n\n[Content truncated due to length]", txt |-> <<>>]

IsVerbatim(content, output) == output = <<[lit |-> "", txt |-> content]>>

\* C6 as stated: the output for a text-like file is the content verbatim
\* when its length is under 50,000 characters, and the first 50,000
\* characters followed by the truncation marker when its length is 50,000
\* or more.
C6_TruncateAtOrAbove ==
  \A r \in ResolvedTexts :
    IF StrLen(r.content) < 50000
    THEN IsVerbatim(r.content, r.output)
    ELSE IsTruncated(r.content, r.output)

\* C6 as amended: the output for a text-like file is the content verbatim
\* when its length is at most 50,000 characters (exactly 50,000 included),
\* and the first 50,000 characters followed by the truncation marker when
\* its length is above 50,000.
C6_TruncateAbove ==
  \A r \in ResolvedTexts :
    IF StrLen(r.content) <= 50000
    THEN IsVerbatim(r.content, r.output)
    ELSE IsTruncated(r.content, r.output)

C6_Witness ==
  /\ \E r \in ResolvedTexts : StrLen(r.content) = 50000 /\ Len(r.content) = 2
  /\ \A r \in ResolvedTexts : IsVerbatim(r.content, r.output)

\* ------------------------------------------------------- export: claims
\* the file name of the text export for the project names of the responses
TextExportName(project_name) ==
  IF project_name = <<"M", "y", " ", " ", "C", "R", "M">>
  THEN <<"M", "y", "_", "C", "R", "M", "_", "B", "R", "D", ".", "m", "d">>
  ELSE project_name \o <<"_", "B", "R", "D", ".", "m", "d">>

\* C15: the text export saves a file whose content is exactly the
\* brd_markdown of the stored result, under a name fixed by the result, so
\* that repeated exports of the same result save the same file; it changes
\* no application state (result, error, accepted files, the form, the
\* flags); no file is saved while no result is stored.
C15_TextExport ==
  /\ [](result = None => download = None)
  /\ [][ event'.op = "downloadBRD" =>
           /\ result # None
           /\ download' = <<[name |-> TextExportName(result[1].project_name),
                             type |-> "text/markdown",
                             content |-> result[1].brd_markdown,
                             pages |-> 0]>>
           /\ UNCHANGED <<result, error, uploadedFiles, projectDescription,
                          additionalInfo, isGenerating, isGeneratingPDF,
                          isProcessingFiles>> ]_vars

\* the text export has just run for a result with whitespace in its project
\* name, with an error and a file on display
C15_Witness ==
  /\ event.op = "downloadBRD"
  /\ download # None
  /\ download[1].content = result[1].brd_markdown
  /\ result[1].project_name = <<"M", "y", " ", " ", "C", "R", "M">>
  /\ error # NULL
  /\ uploadedFiles # <<>>

\* C17: the page loop ends and the saved document has exactly
\* ceil(imgHeight / 295) pages, imgHeight = canvas.height * 210 /
\* canvas.width: a canvas whose image height is a whole number of pages
\* gets no page beyond them.
C17_PagesCeil ==
  (event.op = "downloadPDF.end" /\ event.outcome = "saved") =>
    LET num == event.canvas.height * 210
        den == 295 * event.canvas.width
    IN download[1].pages = (num + den - 1) \div den

\* C14: a binary export that fails, in rasterization or in pagination,
\* leaves the stored result, the error state and the accepted files
\* unchanged, raises one notification and resets isGeneratingPDF to false,
\* so that the export button is enabled again.
C14_FailedExportFrame ==
  [][ (/\ event'.op = "downloadPDF.end"
       /\ event'.outcome \in {"rasterization failed", "pagination failed"}) =>
        /\ result' = result
        /\ error' = error
        /\ uploadedFiles' = uploadedFiles
        /\ Len(alerts') = 1
        /\ isGeneratingPDF' = FALSE
        /\ view'.result # None /\ ~view'.isGeneratingPDF ]_vars

\* a rasterization has just failed while an error and a file were on display
C14_Witness ==
  /\ event.op = "downloadPDF.end"
  /\ event.outcome = "rasterization failed"
  /\ error # NULL
  /\ uploadedFiles # <<>>
  /\ ~isGeneratingPDF
  /\ Len(alerts) = 1

\* C4: downloadPDF removes its temporary container from document.body
\* before it ends, when rasterization and pagination succeed and when
\* either throws: no container is attached once no export is running.
C4_ContainerRemoved == exports = <<>> => bodyChildren = 0
====
